---- MODULE Spec2Model ----
(***************************************************************************)
(* Model of examples/tiling.ipynb: the four callbacks handed to            *)
(* render_tiles (load_data_func, rasterize_func, shader_func,              *)
(* post_render_func), the render cell and the preview cell.                *)
(***************************************************************************)
EXTENDS Integers, Sequences, FiniteSets, TLC

(* ---------------------------- bounds ----------------------------------- *)
MaxCoord == 2      \* supertile ranges are drawn from 0..MaxCoord
MaxDim == 2        \* plot heights and widths are drawn from 1..MaxDim
MaxVal == 2        \* aggregate values handed to shader_func are 0..MaxVal
AggWidth == 2      \* width of the aggregates handed to shader_func
MaxZoom == 1       \* zoom levels modelled of the levels of the render cell

(* ------------------------ program constants ---------------------------- *)
Extent == 20000000          \* 20e6
NumLevels == 8              \* range(0, 8)
ServerPort == 8080          \* port announced by the http server transcript
TilePort == 10000           \* port of the WMTSTileSource url
TealLevel == 128            \* 'teal' is rgb (0, 128, 128)

None == <<>>                \* python None

(* ----------------------------- data ------------------------------------ *)
\* rows of the dataset read by gpd.read_file; a geometry is modelled by its
\* bounding rectangle
Features ==
  { [name |-> "africa", continent |-> "Africa",
     geometry |-> [xlo |-> 0, xhi |-> 0, ylo |-> 2, yhi |-> 2]],
    [name |-> "asia", continent |-> "Asia",
     geometry |-> [xlo |-> 1, xhi |-> 2, ylo |-> 0, yhi |-> 1]],
    [name |-> "europe", continent |-> "Europe",
     geometry |-> [xlo |-> 1, xhi |-> 1, ylo |-> 1, yhi |-> 1]],
    [name |-> "antarctica", continent |-> "Antarctica",
     geometry |-> [xlo |-> 0, xhi |-> 2, ylo |-> 0, yhi |-> 0]] }

\* world = world[world.continent != 'Antarctica']
DropAntarctica(raw) == { r \in raw : r.continent # "Antarctica" }

\* a range is a pair (lo, hi) with lo < hi
Ranges == { r \in (0..MaxCoord) \X (0..MaxCoord) : r[1] < r[2] }

Dims == 1..MaxDim

\* world    the global dataset            world0   the dataset as first loaded
\* last     the callback call in progress called   the callbacks called so far
\* pc       the cell the notebook is at   fs       the tile files written
\* cursor   the next tile to render       server   the http server, once started
\* preview  the preview figure            response the answer to its last request
VARIABLES world, world0, last, called, pc, fs, cursor, server, preview, response

vars == <<world, world0, last, called, pc, fs, cursor, server, preview, response>>

\* what a call leaves behind: the value returned (or the exception raised)
\* and the global dataset as the call left it
Return(value, w) == [raised |-> "none", value |-> value, world |-> w]

Raise(exc, w) == [raised |-> exc, value |-> None, world |-> w]

(* ------------------------- load_data_func ------------------------------ *)
\* geopandas coordinate indexer: obj.cx[xs, ys] keeps the rows whose geometry
\* intersects box(xs.start, ys.start, xs.stop, ys.stop)
cx(obj, xs, ys) ==
  { r \in obj : /\ r.geometry.xlo <= xs[2] /\ xs[1] <= r.geometry.xhi
                /\ r.geometry.ylo <= ys[2] /\ ys[1] <= r.geometry.yhi }

\* rows sampled afresh instead of read from world
load_data_func_wald(x_range, y_range) ==
  Return({ [name |-> "sample", continent |-> "none",
            geometry |-> [xlo |-> x_range[1], xhi |-> x_range[1],
                          ylo |-> y_range[1], yhi |-> y_range[1]]] }, world)

\* the rows the body of load_data_func selects when the global world is w:
\* w.cx[y_range[0]:y_range[1], x_range[0]:x_range[1]]
load_rows(w, x_range, y_range) ==
  cx(w, <<y_range[1], y_range[2]>>, <<x_range[1], x_range[2]>>)

\* the filter applied to the global in place
load_data_func_inplace(x_range, y_range) ==
  Return(load_rows(world, x_range, y_range), load_rows(world, x_range, y_range))

\* def load_data_func(x_range, y_range)
load_data_func(x_range, y_range) ==
  Return(load_rows(world, x_range, y_range), world)

(* ------------------------- rasterize_func ------------------------------ *)
\* ds.Canvas(x_range=, y_range=, plot_height=, plot_width=)
Canvas(x_range, y_range, plot_height, plot_width) ==
  [x_range |-> x_range, y_range |-> y_range,
   plot_height |-> plot_height, plot_width |-> plot_width]

\* the centre of pixel i of n over range rg lies inside [lo, hi]
\* (all terms scaled by 2n to stay in the integers)
CentreIn(rg, n, i, lo, hi) ==
  LET c == 2 * n * rg[1] + (2 * i - 1) * (rg[2] - rg[1])
  IN  2 * n * lo <= c /\ c <= 2 * n * hi

\* cvs.polygons(df, 'geometry'): the default reduction is any()
polygons(cvs, df) ==
  [shape |-> <<cvs.plot_height, cvs.plot_width>>,
   x_range |-> cvs.x_range, y_range |-> cvs.y_range,
   data |-> [p \in (1..cvs.plot_height) \X (1..cvs.plot_width) |->
               IF \E r \in df :
                    /\ CentreIn(cvs.x_range, cvs.plot_width, p[2],
                                r.geometry.xlo, r.geometry.xhi)
                    /\ CentreIn(cvs.y_range, cvs.plot_height, p[1],
                                r.geometry.ylo, r.geometry.yhi)
               THEN 1 ELSE 0]]

\* the canvas built with the axes exchanged
rasterize_func_swapped(df, x_range, y_range, height, width) ==
  Return(polygons(Canvas(y_range, x_range, width, height), df), world)

\* GeoDataFrame(df, geometry='geometry') keeps the rows and their geometry
\* column, which is all the aggregate reads
rasterize_func(df, x_range, y_range, height, width) ==
  LET spatialpandas_df == df
      cvs == Canvas(x_range, y_range, height, width)
      agg == polygons(cvs, spatialpandas_df)
  IN  Return(agg, world)

(* --------------------------- shader_func ------------------------------- *)
RECURSIVE Log1p(_)
\* how='log': the integer part of log2(1 + n)
Log1p(n) == IF n <= 0 THEN 0 ELSE 1 + Log1p((n - 1) \div 2)

SetMin(S) == CHOOSE m \in S : \A k \in S : m <= k

SetMax(S) == CHOOSE m \in S : \A k \in S : k <= m

Black == <<0, 0, 0>>

Teal == <<0, TealLevel, TealLevel>>

ColorRGB(name) == IF name = "teal" THEN Teal ELSE Black

\* linear interpolation between two colours, clamped at both ends
Interp(d, lo, hi, c0, c1) ==
  IF d >= hi THEN c1
  ELSE IF d <= lo THEN c0
  ELSE [k \in 1..3 |-> c0[k] + ((c1[k] - c0[k]) * (d - lo)) \div (hi - lo)]

\* tf.shade(agg, cmap, span, how='log'): zero pixels are masked (transparent);
\* the others are coloured by their place in span, the data's own range when
\* span is None
shade(agg, cmap, span) ==
  LET px == DOMAIN agg.data
      offset == IF span # None THEN span[1]
                ELSE IF \E p \in px : agg.data[p] # 0
                     THEN SetMin({agg.data[p] : p \in {q \in px : agg.data[q] # 0}})
                     ELSE 0
      mask(p) == agg.data[p] = 0 \/ agg.data[p] < offset
      d(p) == Log1p(agg.data[p] - offset)
      seen == {d(p) : p \in {q \in px : ~mask(q)}}
      lo == IF span # None THEN 0
            ELSE IF seen = {} THEN 0 ELSE SetMin(seen)
      hi == IF span # None THEN Log1p(span[2] - offset)
            ELSE IF seen = {} THEN 0 ELSE SetMax(seen)
  IN  [shape |-> agg.shape,
       data |-> [p \in px |->
                   IF mask(p) THEN [rgb |-> Black, a |-> 0]
                   ELSE [rgb |-> Interp(d(p), lo, hi,
                                        ColorRGB(cmap[1]), ColorRGB(cmap[2])),
                         a |-> 255]]]

\* tf.set_background(img, color): transparent pixels take the colour
set_background(img, color) ==
  [img EXCEPT !.data = [p \in DOMAIN img.data |->
                          IF img.data[p].a = 0
                          THEN [rgb |-> ColorRGB(color), a |-> 255]
                          ELSE img.data[p]]]

\* the span argument dropped on the way to tf.shade
shader_func_autorange(agg, span) ==
  Return(set_background(shade(agg, <<"black", "teal">>, None), "black"), world)

\* def shader_func(agg, span=None)
shader_func(agg, span) ==
  LET img == shade(agg, <<"black", "teal">>, span)
  IN  Return(set_background(img, "black"), world)

\* a call that omits span takes the default of the signature
shader_func_default(agg) == shader_func(agg, None)

(* ------------------------- post_render_func ---------------------------- *)
\* "x={},y={},z={}".format(...)
Format(x, y, z) == <<"x=", x, ",y=", y, ",z=", z>>

\* the image returned with its pixels cleared
post_render_func_cleared(img, kwargs) ==
  Return([img EXCEPT !.data = [p \in DOMAIN img.data |->
                                 [img.data[p] EXCEPT !.a = 0]]], world)

post_render_func(img, kwargs) ==
  IF {"x", "y", "z"} \subseteq DOMAIN kwargs
  THEN LET info == Format(kwargs["x"], kwargs["y"], kwargs["z"])
       IN  Return(img, world)
  ELSE Raise("KeyError", world)

(* ------------------------- the notebook cells -------------------------- *)
\* full_extent_of_data = (-20e6, 20e6, -20e6, 20e6)
full_extent_of_data == <<0 - Extent, Extent, 0 - Extent, Extent>>

\* output_path = '/Users/bcollins/temp/test_world/'
output_path == <<"Users", "bcollins", "temp", "test_world">>

\* the directory the text tells the reader to serve, relative to where they are
ServedDir == <<"test_tiles_output">>

\* places the reader may be in when following "cd test_tiles_output"
WorkingDirs == { <<>>, <<"Users", "bcollins">>, <<"Users", "bcollins", "temp">> }

\* the addresses the server transcript announces
ServerHosts == {"127.0.0.1", "192.168.1.7"}

\* url="http://localhost:10000/{Z}/{X}/{Y}.png"
TileUrl == [host |-> "localhost", port |-> TilePort,
            template |-> <<"Z", "X", "Y">>, ext |-> "png"]

\* name resolution on the machine of the reader
Resolve(host) == IF host = "localhost" THEN "127.0.0.1" ELSE host

RECURSIVE Pow2(_)
Pow2(n) == IF n = 0 THEN 1 ELSE 2 * Pow2(n - 1)

\* range(0, 8), as far as the model follows it
Levels == { z \in 0..(NumLevels - 1) : z <= MaxZoom }

\* tiles are addressed by (zoom, x, y)
Tiles == { t \in Levels \X (0..(Pow2(MaxZoom) - 1)) \X (0..(Pow2(MaxZoom) - 1)) :
             t[2] < Pow2(t[1]) /\ t[3] < Pow2(t[1]) }

\* the n-th tile of level z, rows first
TileAt(z, n) == <<z, n % Pow2(z), n \div Pow2(z)>>

\* where render_tiles puts tile (z, x, y) under the output path
TilePath(dir, t) == dir \o <<t[1], t[2], t[3]>>

\* the path a tile url names on the server, by its template
UrlPath(url, t) ==
  [k \in 1..3 |-> IF url.template[k] = "Z" THEN t[1]
                  ELSE IF url.template[k] = "X" THEN t[2] ELSE t[3]]

(* --------------------------- inputs ------------------------------------ *)
Aggs == { [shape |-> <<1, AggWidth>>, data |-> f] :
            f \in [{1} \X (1..AggWidth) -> 0..MaxVal] }

Spans == { s \in (0..MaxVal) \X (0..MaxVal) : s[1] < s[2] }

Images == { set_background(shade(a, <<"black", "teal">>, None), "black") :
              a \in Aggs }

KeySets == { {"x", "y", "z"}, {"x", "y", "z", "extras"}, {"x", "y"}, {} }

KwArgs == { [k \in K |-> IF k = "z" THEN t[1] ELSE IF k = "x" THEN t[2]
                         ELSE IF k = "y" THEN t[3] ELSE 0] :
              K \in KeySets, t \in Tiles }

\* the call the kernel is executing, with what it returned
Call(op, args, r) == [op |-> op, args |-> args, ret |-> r]

\* no call in progress
Idle == pc = "defined" /\ last.op = "none"

(* ---------------------------- actions ---------------------------------- *)
Init ==
  /\ \E raw \in SUBSET Features : world = DropAntarctica(raw)
  /\ world0 = world
  /\ last = Call("none", None, Return(None, world))
  /\ called = {}
  /\ pc = "defined"
  /\ fs = {}
  /\ cursor = <<0, 0>>
  /\ server = None
  /\ preview = None
  /\ response = None

Rest == <<world0, pc, fs, cursor, server, preview, response>>

LoadData ==
  /\ Idle
  /\ \E x_range \in Ranges, y_range \in Ranges :
       LET r == load_data_func(x_range, y_range)
       IN  /\ last' = Call("load", [x_range |-> x_range, y_range |-> y_range], r)
           /\ world' = r.world
           /\ called' = called \cup {last'.op}
  /\ UNCHANGED Rest

Rasterize ==
  /\ Idle
  /\ \E df \in SUBSET world, x_range \in Ranges, y_range \in Ranges,
        height \in Dims, width \in Dims :
       LET r == rasterize_func(df, x_range, y_range, height, width)
       IN  /\ last' = Call("rasterize",
                           [df |-> df, x_range |-> x_range, y_range |-> y_range,
                            height |-> height, width |-> width], r)
           /\ world' = r.world
           /\ called' = called \cup {last'.op}
  /\ UNCHANGED Rest

Shader ==
  /\ Idle
  /\ \E agg \in Aggs, span \in Spans \cup {None} :
       LET r == shader_func(agg, span)
       IN  /\ last' = Call("shade", [agg |-> agg, span |-> span,
                                     given |-> TRUE], r)
           /\ world' = r.world
           /\ called' = called \cup {last'.op}
  /\ UNCHANGED Rest

ShaderNoSpan ==
  /\ Idle
  /\ \E agg \in Aggs :
       LET r == shader_func_default(agg)
       IN  /\ last' = Call("shade", [agg |-> agg, span |-> None,
                                     given |-> FALSE], r)
           /\ world' = r.world
           /\ called' = called \cup {last'.op}
  /\ UNCHANGED Rest

PostRender ==
  /\ Idle
  /\ \E img \in Images, kwargs \in KwArgs :
       LET r == post_render_func(img, kwargs)
       IN  /\ last' = Call("post", [img |-> img, kwargs |-> kwargs], r)
           /\ world' = r.world
           /\ called' = called \cup {last'.op}
  /\ UNCHANGED Rest

\* the call returns to the cell that made it; its frame is gone
Finish ==
  /\ pc = "defined"
  /\ last.op # "none"
  /\ last' = Call("none", None, Return(None, world))
  /\ UNCHANGED <<world, world0, called, pc, fs, cursor, server, preview, response>>

\* the render cell starts render_tiles
Render ==
  /\ Idle
  /\ pc' = "rendering"
  /\ UNCHANGED <<world, world0, called, last, fs, cursor, server, preview, response>>

\* render_tiles hands one tile to post_render_func and writes what it returns
RenderTile ==
  /\ pc = "rendering"
  /\ cursor[1] \in Levels
  /\ \E img \in Images :
       LET t == TileAt(cursor[1], cursor[2])
           r == post_render_func(img, [k \in {"x", "y", "z"} |->
                                         IF k = "z" THEN t[1]
                                         ELSE IF k = "x" THEN t[2] ELSE t[3]])
       IN  /\ r.raised = "none"
           /\ fs' = fs \cup {TilePath(output_path, t)}
           /\ world' = r.world
  /\ cursor' = IF cursor[2] + 1 < Pow2(cursor[1]) * Pow2(cursor[1])
               THEN <<cursor[1], cursor[2] + 1>>
               ELSE <<cursor[1] + 1, 0>>
  /\ UNCHANGED <<world0, last, called, pc, server, preview, response>>

RenderDone ==
  /\ pc = "rendering"
  /\ cursor[1] \notin Levels
  /\ pc' = "rendered"
  /\ UNCHANGED <<world, world0, called, last, fs, cursor, server, preview, response>>

\* "cd test_tiles_output" and "python -m http.server"
StartServer ==
  /\ pc = "rendered"
  /\ \E cwd \in WorkingDirs :
       server' = [hosts |-> ServerHosts, port |-> ServerPort,
                  dir |-> cwd \o ServedDir]
  /\ pc' = "serving"
  /\ UNCHANGED <<world, world0, called, last, fs, cursor, preview, response>>

\* the preview cell
Preview ==
  /\ pc = "serving"
  /\ preview' = [xmin |-> full_extent_of_data[1],
                 ymin |-> full_extent_of_data[2],
                 xmax |-> full_extent_of_data[3],
                 ymax |-> full_extent_of_data[4],
                 x_range |-> <<0 - Extent, Extent>>,
                 y_range |-> <<0 - Extent, Extent>>,
                 url |-> TileUrl]
  /\ pc' = "previewed"
  /\ UNCHANGED <<world, world0, called, last, fs, cursor, server, response>>

\* the figure asks its tile source for a tile
FetchTile ==
  /\ pc = "previewed"
  /\ \E t \in Tiles :
       response' =
         [tile |-> t,
          status |->
            IF ~(/\ Resolve(preview.url.host) \in server.hosts
                 /\ preview.url.port = server.port)
            THEN "refused"
            ELSE IF server.dir \o UrlPath(preview.url, t) \in fs
                 THEN "ok" ELSE "not found"]
  /\ UNCHANGED <<world, world0, called, last, pc, fs, cursor, server, preview>>

Next ==
  \/ LoadData
  \/ Rasterize
  \/ Shader
  \/ ShaderNoSpan
  \/ PostRender
  \/ Finish
  \/ Render
  \/ RenderTile
  \/ RenderDone
  \/ StartServer
  \/ Preview
  \/ FetchTile

Spec == Init /\ [][Next]_vars

(* ----------------------------- claims ---------------------------------- *)
XYZ == {"x", "y", "z"}

\* C1: load_data_func(x_range, y_range) returns exactly the rows of world whose
\* geometry intersects the rectangle with x in x_range and y in y_range.
C1_BoundingBoxFilter ==
  last.op = "load" =>
    /\ last.ret.raised = "none"
    /\ last.ret.value = cx(world, last.args.x_range, last.args.y_range)

\* C2: a call post_render_func(img, **kwargs) whose keywords contain x, y and z
\* returns the img it was given and changes nothing else.
C2_PostRenderNoOp ==
  [][(last.op = "none" /\ last'.op = "post"
        /\ XYZ \subseteq DOMAIN last'.args.kwargs)
       => /\ last'.ret.raised = "none"
          /\ last'.ret.value = last'.args.img
          /\ UNCHANGED <<world, world0, pc, fs, cursor, server, preview,
                         response>>]_vars

C2_Witness ==
  /\ last.op = "post"
  /\ XYZ \subseteq DOMAIN last.args.kwargs
  /\ "extras" \in DOMAIN last.args.kwargs
  /\ last.args.kwargs["z"] = 1
  /\ last.ret.value = last.args.img
  /\ \E p \in DOMAIN last.args.img.data : last.args.img.data[p].rgb = Teal

\* C3: rasterize_func(df, x_range, y_range, height, width) returns the polygon
\* aggregate of df's geometry on the canvas with x range x_range, y range
\* y_range, plot height height and plot width width.
C3_RasterizeOnSupertileCanvas ==
  last.op = "rasterize" =>
    LET a == last.args
        cvs == [x_range |-> a.x_range, y_range |-> a.y_range,
                plot_height |-> a.height, plot_width |-> a.width]
    IN  /\ last.ret.raised = "none"
        /\ last.ret.value = polygons(cvs, a.df)
        /\ last.ret.value.shape = <<a.height, a.width>>
        /\ last.ret.value.x_range = a.x_range
        /\ last.ret.value.y_range = a.y_range

C3_Witness ==
  /\ last.op = "rasterize"
  /\ last.args.x_range # last.args.y_range
  /\ last.args.height # last.args.width
  /\ \E p \in DOMAIN last.ret.value.data : last.ret.value.data[p] = 1
  /\ \E p \in DOMAIN last.ret.value.data : last.ret.value.data[p] = 0

\* C4: shader_func(agg, span) shades agg with exactly the span given, with span
\* None when span is omitted, and returns the shaded image on a black
\* background.
C4_ShaderUsesSpan ==
  last.op = "shade" =>
    LET a == last.args
        used == IF a.given THEN a.span ELSE None
        shaded == shade(a.agg, <<"black", "teal">>, used)
    IN  /\ last.ret.raised = "none"
        /\ last.ret.value = set_background(shaded, "black")
        /\ \A p \in DOMAIN shaded.data :
             /\ last.ret.value.data[p].a = 255
             /\ shaded.data[p].a = 0 => last.ret.value.data[p].rgb = Black
             /\ shaded.data[p].a # 0 => last.ret.value.data[p] = shaded.data[p]

C4_Witness ==
  /\ last.op = "shade"
  /\ last.args.given
  /\ last.args.span # None
  /\ last.ret.value #
       set_background(shade(last.args.agg, <<"black", "teal">>, None), "black")
  /\ \E p \in DOMAIN last.args.agg.data : last.args.agg.data[p] = 0

C6_PreviewReadsRenderedTiles ==
  /\ pc = "previewed" =>
       /\ Resolve(preview.url.host) \in server.hosts
       /\ preview.url.port = server.port
       /\ preview.url.template = <<"Z", "X", "Y">>
       /\ preview.url.ext = "png"
       /\ server.dir = output_path
  /\ (pc = "previewed" /\ response # None) =>
       (TilePath(output_path, response.tile) \in fs => response.status = "ok")

\* C7: under the order xmin, ymin, xmax, ymax the extent is a non-empty
\* rectangle, and its x and y intervals are the ranges of the preview figure.
C7_ExtentIsRectangle ==
  pc = "previewed" =>
    /\ preview.xmin < preview.xmax
    /\ preview.ymin < preview.ymax
    /\ <<preview.xmin, preview.xmax>> = preview.x_range
    /\ <<preview.ymin, preview.ymax>> = preview.y_range

\* C8: whatever callbacks were called, world is what it was, and a call of
\* load_data_func returns the rows the same call returns on the first dataset.
C8_CallbacksLeaveWorld ==
  /\ world = world0
  /\ last.op = "load" =>
       last.ret.value = load_rows(world0, last.args.x_range, last.args.y_range)

C8_Witness ==
  /\ called = {"load", "rasterize", "shade", "post"}
  /\ last.op = "load"
  /\ last.ret.value # {}
  /\ last.ret.value # world
  /\ world = world0

====
